---- MODULE Spec2Model ----
(***************************************************************************)
(* A model of the NNTP client (package nntp): the connection engine        *)
(* (Conn.cmd and the verbs built on it), the body reader with its          *)
(* dot-unstuffing, readStrings, and RawPost with its dot-stuffing.         *)
(*                                                                         *)
(* Text is modelled as sequences of one-character strings, so that the     *)
(* slicing the code does (line[3], line[0:3], b[len(b)-2], HasPrefix) is   *)
(* done on characters here too.  The server and the transport are the      *)
(* environment: the server answers every command line it receives, the     *)
(* transport may fail at any moment.                                       *)
(***************************************************************************)
EXTENDS Integers, Sequences, FiniteSets, TLC

VARIABLES
    close,      \* Conn.close
    br,         \* Conn.br: index into readers of the bound bodyReader, 0 = nil
    readers,    \* every bodyReader allocated so far: [eof, buf]
    wire,       \* lines the server has sent that the client has not read yet
    tx,         \* the transport: "open", "eof" (peer closed), "err", "closed"
    pc,         \* where the running call stands ("idle": no call is running)
    frame,      \* the running (or last) verb and its local variables
    cres,       \* what the last cmd returned: code, line, err
    ret,        \* what the last verb returned
    rd,         \* what the caller's last Read of a body reader returned
    sentLog,    \* history: the lines the current call has written
    rcvLog,     \* history: the roles of the lines the current call read as status
    payload,    \* history: the content lines of the server's last multi-line reply
    delivered,  \* history: the bytes the bound reader's Read calls have returned
    drained,    \* history: the reader the current cmd discarded, 0 = none
    tin,        \* input of the function under check (specifications of pure functions)
    tout        \* its output

vars == <<close, br, readers, wire, tx, pc, frame, cres, ret, rd,
          sentLog, rcvLog, payload, delivered, drained, tin, tout>>

connVars == <<close, br, readers, wire, tx>>
histVars == <<sentLog, rcvLog, payload, delivered, drained>>
testVars == <<tin, tout>>

----------------------------------------------------------------------------
(* Bounds of the model. *)

\* the most content lines in one multi-line reply of the server
MaxBodyLines == 2
\* the most body readers one connection allocates
MaxReaders == 2
\* len(p) of a caller's short Read
SmallRead == 2

----------------------------------------------------------------------------
(* Characters and lines. *)

CR == "\r"
LF == "\n"
SP == " "
DOT == "."
TAB == "\t"
COLON == ":"

CRLF == <<CR, LF>>

\* var dotnl = []byte(".\n")
dotnl == <<DOT, LF>>
\* var dotdot = []byte("..")
dotdot == <<DOT, DOT>>

Min(a, b) == IF a < b THEN a ELSE b

DigitChars == <<"0", "1", "2", "3", "4", "5", "6", "7", "8", "9">>

IsDigit(ch) == \E d \in 1..10 : DigitChars[d] = ch

DigitVal(ch) == (CHOOSE d \in 1..10 : DigitChars[d] = ch) - 1

\* strings.HasPrefix / bytes.HasPrefix
HasPrefix(s, p) == Len(s) >= Len(p) /\ SubSeq(s, 1, Len(p)) = p

\* strings.HasSuffix
HasSuffix(s, p) == Len(s) >= Len(p) /\ SubSeq(s, Len(s) - Len(p) + 1, Len(s)) = p

\* the white space strings.TrimSpace removes (the part of it in the alphabet)
IsSpace(ch) == ch \in {SP, "\t", LF, CR}

RECURSIVE TrimLeft(_)
TrimLeft(s) == IF s # <<>> /\ IsSpace(Head(s)) THEN TrimLeft(Tail(s)) ELSE s

RECURSIVE TrimRight(_)
TrimRight(s) ==
    IF s # <<>> /\ IsSpace(s[Len(s)]) THEN TrimRight(SubSeq(s, 1, Len(s) - 1)) ELSE s

\* strings.TrimSpace
TrimSpace(s) == TrimRight(TrimLeft(s))

\* strconv.ParseUint(s, 10, 0) succeeds: decimal digits only, no sign, not empty
IsUint(s) == s # <<>> /\ \A i \in 1..Len(s) : IsDigit(s[i])

RECURSIVE ParseUint(_)
ParseUint(s) ==
    IF s = <<>> THEN 0
    ELSE 10 * ParseUint(SubSeq(s, 1, Len(s) - 1)) + DigitVal(s[Len(s)])

----------------------------------------------------------------------------
(* Errors. *)

Nil == [kind |-> "nil", what |-> "", code |-> 0, msg |-> <<>>]

\* ProtocolError(what + line)
ProtocolError(what, line) ==
    [kind |-> "ProtocolError", what |-> what, code |-> 0, msg |-> line]

\* Error{code, line}
StatusError(code, line) == [kind |-> "Error", what |-> "", code |-> code, msg |-> line]

----------------------------------------------------------------------------
(* Conn.cmd, from the status line on. *)

\* a comparison that takes a two-digit expectCode for a one-digit one
expectMismatchHundreds(expectCode, code) ==
    \/ 1 <= expectCode /\ expectCode < 100 /\ code \div 100 # expectCode \div 10
    \/ 100 <= expectCode /\ expectCode < 1000 /\ code # expectCode

\* the condition of the if at the end of cmd
expectMismatch(expectCode, code) ==
    \/ 1 <= expectCode /\ expectCode < 10 /\ code \div 100 # expectCode
    \/ 10 <= expectCode /\ expectCode < 100 /\ code \div 10 # expectCode
    \/ 100 <= expectCode /\ expectCode < 1000 /\ code # expectCode

\* a cmd that does not look at the 4th character of the status line
cmdReplyNoSeparator(expectCode, raw) ==
    LET line == TrimSpace(raw) IN
    IF Len(line) < 4
    THEN [code |-> 0, line |-> <<>>, err |-> ProtocolError("short response", line)]
    ELSE IF ~IsUint(SubSeq(line, 1, 3))
    THEN [code |-> 0, line |-> <<>>, err |-> ProtocolError("invalid response code", line)]
    ELSE LET code == ParseUint(SubSeq(line, 1, 3))
             text == SubSeq(line, 5, Len(line))
         IN  [code |-> code, line |-> text,
              err |-> IF expectMismatch(expectCode, code)
                      THEN StatusError(code, text) ELSE Nil]

\* what cmd returns once ReadString has returned raw
cmdReply(expectCode, raw) ==
    LET line == TrimSpace(raw) IN
    IF Len(line) < 4 \/ line[4] # SP
    THEN [code |-> 0, line |-> <<>>, err |-> ProtocolError("short response", line)]
    ELSE IF ~IsUint(SubSeq(line, 1, 3))
    THEN [code |-> 0, line |-> <<>>, err |-> ProtocolError("invalid response code", line)]
    ELSE LET code == ParseUint(SubSeq(line, 1, 3))
             text == SubSeq(line, 5, Len(line))
         IN  [code |-> code, line |-> text,
              err |-> IF expectMismatch(expectCode, code)
                      THEN StatusError(code, text) ELSE Nil]

----------------------------------------------------------------------------
(* The transport, as c.r (a bufio.Reader over the connection) shows it. *)

\* io.EOF: the value Read returns at the end of data, and the value the
\* transport returns when the peer has closed the stream
EOF == [kind |-> "EOF", what |-> "", code |-> 0, msg |-> <<>>]

\* any other error of the transport (reset, use of a closed connection)
IOError == [kind |-> "io", what |-> "", code |-> 0, msg |-> <<>>]

\* the error ReadString / ReadBytes returns when no whole line is left
TransportErr(t) == IF t = "eof" THEN EOF ELSE IOError

\* a read returns: with a line, or with an error once the transport has failed
CanRead(w, t) == w # <<>> \/ t # "open"

----------------------------------------------------------------------------
(* bodyReader. *)

NewBodyReader == [eof |-> FALSE, buf |-> <<>>]

\* "canonicalize newlines": crlf -> lf (b has at least two bytes)
canonicalize(b) ==
    IF b[Len(b) - 1] = CR THEN SubSeq(b, 1, Len(b) - 2) \o <<LF>> ELSE b

\* a reader that takes no line for the end of the block
isDotLineNever(b) == FALSE

\* "stop on .": bytes.Equal(b, dotnl)
isDotLine(b) == b = dotnl

\* "unescape leading ..": b = b[1:]
unescape(b) == IF HasPrefix(b, dotdot) THEN Tail(b) ELSE b

ReadResult(r, w, out, err, panic) ==
    [r |-> r, wire |-> w, out |-> out, err |-> err, panic |-> panic]

\* n, _ = r.buf.Read(p): full says that p holds the whole buffer
bufRead(r, w, full) ==
    LET n == IF full THEN Len(r.buf) ELSE Min(SmallRead, Len(r.buf))
    IN  ReadResult([r EXCEPT !.buf = SubSeq(r.buf, n + 1, Len(r.buf))], w,
                   SubSeq(r.buf, 1, n), Nil, FALSE)

\* bodyReader.Read on reader r with the transport holding w in state t
Read(r, w, t, full) ==
    IF r.eof THEN ReadResult(r, w, <<>>, EOF, FALSE)
    ELSE IF Len(r.buf) = 0
    THEN IF w = <<>> THEN ReadResult(r, w, <<>>, TransportErr(t), FALSE)
         ELSE LET b == Head(w).b IN
              \* b[len(b)-2] on a one-byte line: index out of range
              IF Len(b) < 2 THEN ReadResult(r, w, <<>>, Nil, TRUE)
              ELSE LET c == canonicalize(b) IN
                   IF isDotLine(c)
                   THEN ReadResult([r EXCEPT !.eof = TRUE], Tail(w), <<>>, EOF, FALSE)
                   ELSE bufRead([r EXCEPT !.buf = unescape(c)], Tail(w), full)
    ELSE bufRead(r, w, full)

----------------------------------------------------------------------------
(* readStrings and RawPost, one line at a time. *)

\* readStrings: the line without its "\r\n" or "\n"
stripNewline(line) ==
    IF HasSuffix(line, CRLF) THEN SubSeq(line, 1, Len(line) - 2)
    ELSE IF HasSuffix(line, <<LF>>) THEN SubSeq(line, 1, Len(line) - 1)
    ELSE line

\* readStrings: line == "."
isEndOfList(line) == line = <<DOT>>

\* br.ReadString('\n') on the article text src
readString(src) ==
    IF \E i \in 1..Len(src) : src[i] = LF
    THEN LET i == CHOOSE k \in 1..Len(src) :
                      src[k] = LF /\ \A j \in 1..(k - 1) : src[j] # LF
         IN  [line |-> SubSeq(src, 1, i), rest |-> SubSeq(src, i + 1, Len(src)),
              err |-> Nil]
    ELSE [line |-> src, rest |-> <<>>, err |-> EOF]

\* a RawPost that doubles no dot
postPrefixNone(line) == <<>>

\* RawPost: the prefix of a line that starts with "."
postPrefix(line) == IF HasPrefix(line, <<DOT>>) THEN <<DOT>> ELSE <<>>

\* RawPost: the bytes written for the line ReadString returned
postLine(line) ==
    LET l == IF HasSuffix(line, <<LF>>) THEN SubSeq(line, 1, Len(line) - 1) ELSE line
    IN  postPrefix(l) \o l \o CRLF

\* RawPost: one turn of the loop on the article text src.  stop: the loop
\* breaks before writing; out: the bytes written; last: it breaks after writing
postTurn(src) ==
    LET rs == readString(src)
        eof == rs.err = EOF
    IN  [stop |-> eof /\ Len(rs.line) = 0, out |-> postLine(rs.line), last |-> eof,
         rest |-> rs.rest]

----------------------------------------------------------------------------
(* The server: what it answers to a command line (RFC 3977; the wire       *)
(* format of the replies cmd, readStrings and bodyReader.Read parse).      *)

\* the content lines a multi-line reply is made of
ContentLines == {<<>>, <<DOT>>, <<DOT, "a">>}

Payloads == UNION {[1..n -> ContentLines] : n \in 0..MaxBodyLines}

\* a row of an OVER reply with its eight fields, a line of a NEWGROUPS reply
OverLine ==
    <<"1", TAB, "s", TAB, "f", TAB, "d", TAB, "m", TAB, "r", TAB, "1", TAB, "1">>
GroupLine == <<"g", SP, "2", SP, "1", SP, "y">>

\* the content lines of the reply to command c: rows and group lines (and
\* lines that are neither), the header lines of an article named by its id
ContentLinesOf(c) ==
    CASE c = "OVER" -> {OverLine, <<"x">>}
      [] c = "NEWGROUPS" -> {GroupLine, <<"g", SP, "x", SP, "1", SP, "y">>}
      [] c \in {"ARTICLE <a>", "HEAD <a>"} ->
            {<<"a", COLON, "x">>, <<SP, "c">>, <<>>, <<"a", "x">>}
      [] OTHER -> ContentLines

PayloadsOf(c) == UNION {[1..n -> ContentLinesOf(c)] : n \in 0..MaxBodyLines}

\* the line endings a server uses: the protocol's, and a bare line feed
LineEndings == {CRLF, <<LF>>}

\* the server's dot-stuffing of a content line
stuffed(l) == IF HasPrefix(l, <<DOT>>) THEN <<DOT>> \o l ELSE l

\* the status line with the code and the text
StatusLineOf(code, text) ==
    <<DigitChars[(code \div 100) + 1], DigitChars[((code \div 10) % 10) + 1],
      DigitChars[(code % 10) + 1], SP>> \o text \o CRLF

StatusLine(code) == StatusLineOf(code, <<"x">>)

\* the texts the server puts after the code: a group's numbers, a time, an
\* article's number and id, or a text that is none of these
ReplyTexts(c) ==
    CASE c = "GROUP" -> {<<"x">>, <<"4", SP, "1", SP, "4", SP, "g">>, <<"4", SP, "1">>}
      [] c = "DATE" ->
            {<<"x">>, <<"2", "0", "2", "6", "0", "2", "2", "8", "2", "3", "5", "9", "5", "9">>,
             <<"2", "0", "2", "6", "0", "2", "3", "0", "0", "0", "0", "0", "0", "0">>}
      [] c \in {"STAT", "NEXT", "LAST"} -> {<<"x">>, <<"1", SP, "m">>}
      [] OTHER -> {<<"x">>}

\* a status line that is no status line
ShortLine == <<"2", "0">> \o CRLF

\* the block of a multi-line reply: the stuffed lines, then the line "."
Block(lines, eol) ==
    [i \in 1..Len(lines) |-> [b |-> stuffed(lines[i]) \o eol, role |-> "body", code |-> 0]]
        \o <<[b |-> <<DOT>> \o eol, role |-> "end", code |-> 0]>>

\* the reply codes the server gives to a command
ReplyCodes(c) ==
    CASE c = "AUTHINFO USER" -> {281, 381, 481}
      [] c = "AUTHINFO PASS" -> {281, 381, 481}
      [] c = "MODE READER" -> {200, 201, 500}
      [] c = "HELP" -> {100, 500}
      [] c = "ARTICLE" -> {220, 430}
      [] c = "HEAD" -> {221, 430}
      [] c = "BODY" -> {222, 430}
      [] c = "LIST" -> {215, 500}
      [] c = "CAPABILITIES" -> {101, 500}
      [] c = "POST" -> {340, 440}
      [] c = "." -> {240, 441}
      [] c = "QUIT" -> {205}
      [] c = "GROUP" -> {211, 411}
      [] c = "DATE" -> {111}
      [] c = "STAT" -> {223, 430}
      [] c = "NEXT" -> {223, 421}
      [] c = "LAST" -> {223, 422}
      [] c = "OVER" -> {224, 423}
      [] c = "NEWGROUPS" -> {231}
      [] c = "ARTICLE <a>" -> {220, 430}
      [] c = "HEAD <a>" -> {221, 430}

\* the reply codes a multi-line block follows
MultiLineCodes == {100, 101, 215, 220, 221, 222, 224, 231}

\* a reply: its lines (role and code say what the server meant by a line; the
\* client reads b alone), and the content of its block
ServerReplies(c) ==
    {[lines |-> <<[b |-> StatusLineOf(code, text), role |-> "status", code |-> code]>>,
      multi |-> FALSE, payload |-> <<>>] :
         code \in ReplyCodes(c) \ MultiLineCodes, text \in ReplyTexts(c)}
    \cup {[lines |-> <<[b |-> ShortLine, role |-> "status", code |-> -1]>>,
           multi |-> FALSE, payload |-> <<>>]}
    \cup {[lines |-> <<[b |-> StatusLine(code), role |-> "status", code |-> code]>>
                        \o Block(pl, eol),
           multi |-> TRUE, payload |-> pl] :
             code \in ReplyCodes(c) \cap MultiLineCodes, pl \in PayloadsOf(c),
             eol \in LineEndings}

\* the articles a caller posts (text format, lines ending in "\n")
Articles ==
    {<<>>, <<"a", LF>>, <<DOT, "a", LF, "a">>, <<DOT, LF>>}

----------------------------------------------------------------------------
(* The connection. *)

NoFrame ==
    [verb |-> "", step |-> 0, expect |-> 0, cmd |-> "", code |-> 0,
     sv |-> <<>>, src |-> <<>>, wasClosed |-> FALSE]

NoResult == [code |-> 0, line |-> <<>>, err |-> Nil]

NoReturn == [err |-> Nil, list |-> <<>>, reader |-> 0]

NoRead == [reader |-> 0, err |-> Nil]

\* the variables of the specifications of pure functions, unused
NoTest == [kind |-> "none"]

\* newConn: the greeting has been read
InitConn ==
    /\ close = FALSE
    /\ br = 0
    /\ readers = <<>>
    /\ wire = <<>>
    /\ tx = "open"
    /\ pc = "idle"
    /\ frame = NoFrame
    /\ cres = NoResult
    /\ ret = NoReturn
    /\ rd = NoRead
    /\ sentLog = <<>>
    /\ rcvLog = <<>>
    /\ payload = <<>>
    /\ delivered = <<>>
    /\ drained = 0

Init == InitConn /\ tin = NoTest /\ tout = NoTest

\* a verb is called: it calls cmd(expect, cmd) first
Call(verb, expect, c, src) ==
    /\ pc = "idle"
    /\ pc' = "cmd"
    /\ frame' = [verb |-> verb, step |-> 1, expect |-> expect, cmd |-> c, code |-> 0,
                 sv |-> <<>>, src |-> src, wasClosed |-> close]
    /\ cres' = NoResult
    /\ ret' = NoReturn
    /\ rd' = NoRead
    /\ sentLog' = <<>>
    /\ rcvLog' = <<>>
    /\ drained' = 0
    /\ payload' = IF br = 0 THEN <<>> ELSE payload
    /\ UNCHANGED <<connVars, delivered, testVars>>

\* the verb returns
Return(err, list, reader) ==
    /\ pc' = "idle"
    /\ ret' = [err |-> err, list |-> list, reader |-> reader]
    /\ frame' = [frame EXCEPT !.sv = <<>>, !.src = <<>>]
    /\ cres' = NoResult

\* the verb calls cmd again
CallCmd(expect, c) ==
    /\ pc' = "cmd"
    /\ frame' = [frame EXCEPT !.step = @ + 1, !.expect = expect, !.cmd = c,
                              !.code = cres.code]
    /\ UNCHANGED <<cres, ret>>

\* a cmd that does not look at c.close
cmdClosedNever == FALSE

\* if c.close
cmdClosed == close

\* if c.br != nil
mustDiscard == br # 0

cmdEnter ==
    /\ pc = "cmd"
    /\ IF cmdClosed
       THEN /\ cres' = [code |-> 0, line |-> <<>>,
                        err |-> ProtocolError("connection closed", <<>>)]
            /\ pc' = "after"
       ELSE /\ pc' = IF mustDiscard THEN "discard" ELSE "write"
            /\ UNCHANGED cres
    /\ UNCHANGED <<connVars, frame, ret, rd, histVars, testVars>>

\* c.br.discard(): one Read of ioutil.ReadAll's loop
cmdDiscard ==
    /\ pc = "discard"
    /\ LET r == readers[br]
           rr == Read(r, wire, tx, TRUE)
       IN  /\ r.eof \/ r.buf # <<>> \/ CanRead(wire, tx)
           /\ IF rr.panic
              THEN /\ pc' = "panic"
                   /\ UNCHANGED <<readers, wire, delivered, br, drained, cres>>
              ELSE /\ readers' = [readers EXCEPT ![br] = rr.r]
                   /\ wire' = rr.wire
                   /\ delivered' = delivered \o rr.out
                   /\ IF rr.err = Nil
                      THEN /\ pc' = "discard"
                           /\ UNCHANGED <<br, drained, cres>>
                      ELSE IF rr.err = EOF
                      THEN \* ReadAll returns nil
                           /\ pc' = "discarded"
                           /\ UNCHANGED <<br, drained, cres>>
                      ELSE /\ cres' = [code |-> 0, line |-> <<>>, err |-> rr.err]
                           /\ pc' = "after"
                           /\ UNCHANGED <<br, drained>>
    /\ UNCHANGED <<close, tx, frame, ret, rd, sentLog, rcvLog, payload, testVars>>

\* a cmd whose discard reads the body without the reader coming to its end
cmdUnbindLive ==
    /\ pc = "discarded"
    /\ readers' = [readers EXCEPT ![br] = NewBodyReader]
    /\ br' = 0
    /\ drained' = br
    /\ payload' = <<>>
    /\ delivered' = <<>>
    /\ pc' = "write"
    /\ UNCHANGED <<close, wire, tx, frame, cres, ret, rd, sentLog, rcvLog, testVars>>

\* c.br = nil
cmdUnbind ==
    /\ pc = "discarded"
    /\ br' = 0
    /\ drained' = br
    /\ payload' = <<>>
    /\ delivered' = <<>>
    /\ pc' = "write"
    /\ UNCHANGED <<close, readers, wire, tx, frame, cres, ret, rd, sentLog, rcvLog,
                   testVars>>

\* fmt.Fprintf(c.conn, format+"\r\n", args...)
cmdWrite ==
    /\ pc = "write"
    /\ \/ /\ tx = "open"
          /\ \E rep \in ServerReplies(frame.cmd) :
                /\ wire' = wire \o rep.lines
                /\ payload' = IF rep.multi THEN rep.payload ELSE payload
          /\ sentLog' = Append(sentLog, [cmd |-> frame.cmd, b |-> <<>>])
          /\ pc' = "status"
          /\ UNCHANGED cres
       \/ \* the peer has closed: the write may still succeed, no reply comes
          /\ tx = "eof"
          /\ sentLog' = Append(sentLog, [cmd |-> frame.cmd, b |-> <<>>])
          /\ pc' = "status"
          /\ UNCHANGED <<wire, payload, cres>>
       \/ /\ tx # "open"
          /\ cres' = [code |-> 0, line |-> <<>>, err |-> IOError]
          /\ pc' = "after"
          /\ UNCHANGED <<wire, payload, sentLog>>
    /\ UNCHANGED <<close, br, readers, tx, frame, ret, rd, rcvLog, delivered, drained,
                   testVars>>

\* line, err = c.r.ReadString('\n') and the rest of cmd
cmdStatus ==
    /\ pc = "status"
    /\ CanRead(wire, tx)
    /\ IF wire = <<>>
       THEN /\ cres' = [code |-> 0, line |-> <<>>, err |-> TransportErr(tx)]
            /\ UNCHANGED <<wire, rcvLog>>
       ELSE /\ cres' = cmdReply(frame.expect, Head(wire).b)
            /\ wire' = Tail(wire)
            /\ rcvLog' = Append(rcvLog, [role |-> Head(wire).role, code |-> Head(wire).code])
    /\ pc' = "after"
    /\ UNCHANGED <<close, br, readers, tx, frame, ret, rd, sentLog, payload, delivered,
                   drained, testVars>>

\* cmd has returned to the verb that called it
After(verb, step) == pc = "after" /\ frame.verb = verb /\ frame.step = step

----------------------------------------------------------------------------
(* The verbs. *)

\* a c.body() that returns a new bodyReader without keeping it in c.br
bodyUnbound ==
    /\ readers' = Append(readers, NewBodyReader)
    /\ br' = 0
    /\ delivered' = <<>>

\* c.body(): a new bodyReader is bound
body ==
    /\ readers' = Append(readers, NewBodyReader)
    /\ br' = Len(readers) + 1
    /\ delivered' = <<>>

\* Help, ArticleText, HeadText, Body: cmd, then return c.body()
BodyVerb(verb, expect, c) ==
    \/ /\ Len(readers) < MaxReaders
       /\ Call(verb, expect, c, <<>>)
    \/ /\ After(verb, 1)
       /\ IF cres.err # Nil
          THEN /\ Return(cres.err, <<>>, 0)
               /\ UNCHANGED <<br, readers, delivered>>
          ELSE /\ body
               /\ Return(Nil, <<>>, Len(readers) + 1)
       /\ UNCHANGED <<close, wire, tx, rd, sentLog, rcvLog, payload, drained, testVars>>

Help == BodyVerb("Help", 100, "HELP")

ArticleText == BodyVerb("ArticleText", 220, "ARTICLE")

HeadText == BodyVerb("HeadText", 221, "HEAD")

Body == BodyVerb("Body", 222, "BODY")

\* ModeReader: cmd, then return err
ModeReader ==
    \/ Call("ModeReader", 20, "MODE READER", <<>>)
    \/ /\ After("ModeReader", 1)
       /\ Return(cres.err, <<>>, 0)
       /\ UNCHANGED <<connVars, rd, histVars, testVars>>

\* an Authenticate that sends the password after every reply but 2xx
needsPasswordUnlessOk(code) == code \div 100 # 2

\* Authenticate: if code/100 == 3
needsPassword(code) == code \div 100 = 3

\* Authenticate: the user step, and the password step if the code asks for it
Authenticate ==
    \/ Call("Authenticate", 2, "AUTHINFO USER", <<>>)
    \/ /\ After("Authenticate", 1)
       /\ IF needsPassword(cres.code)
          THEN CallCmd(2, "AUTHINFO PASS")
          ELSE Return(cres.err, <<>>, 0)
       /\ UNCHANGED <<connVars, rd, histVars, testVars>>
    \/ /\ After("Authenticate", 2)
       /\ Return(cres.err, <<>>, 0)
       /\ UNCHANGED <<connVars, rd, histVars, testVars>>

\* List, Capabilities: cmd, then return c.readStrings()
ListVerb(verb, expect, c) ==
    \/ Call(verb, expect, c, <<>>)
    \/ /\ After(verb, 1)
       /\ IF cres.err # Nil
          THEN Return(cres.err, <<>>, 0)
          ELSE pc' = "strings" /\ UNCHANGED <<frame, cres, ret>>
       /\ UNCHANGED <<connVars, rd, histVars, testVars>>

\* List(a...): more than two arguments are refused before any command
List ==
    \/ ListVerb("List", 215, "LIST")
    \/ /\ pc = "idle"
       /\ pc' = "idle"
       /\ frame' = [NoFrame EXCEPT !.verb = "List", !.wasClosed = close]
       /\ ret' = [err |-> ProtocolError("List only takes up to 2 arguments", <<>>),
                  list |-> <<>>, reader |-> 0]
       /\ cres' = NoResult
       /\ rd' = NoRead
       /\ sentLog' = <<>>
       /\ rcvLog' = <<>>
       /\ drained' = 0
       /\ UNCHANGED <<connVars, payload, delivered, testVars>>

Capabilities == ListVerb("Capabilities", 101, "CAPABILITIES")

\* the verbs that decode the lines readStrings returns
Decoding == {"Overview", "NewGroups"}

\* readStrings: one turn of its loop
readStrings ==
    /\ pc = "strings"
    /\ CanRead(wire, tx)
    /\ IF wire = <<>>
       THEN /\ Return(TransportErr(tx), <<>>, 0)
            /\ UNCHANGED wire
       ELSE LET line == stripNewline(Head(wire).b) IN
            /\ wire' = Tail(wire)
            /\ IF isEndOfList(line)
               THEN IF frame.verb \in Decoding
                    THEN pc' = "decode" /\ UNCHANGED <<frame, ret, cres>>
                    ELSE Return(Nil, frame.sv, 0)
               ELSE /\ frame' = [frame EXCEPT !.sv = Append(@, line)]
                    /\ UNCHANGED <<pc, ret, cres>>
    /\ UNCHANGED <<close, br, readers, tx, rd, histVars, testVars>>

\* a RawPost that goes on whatever the reply to POST
postRefusedNever == FALSE

\* RawPost: if _, _, err := c.cmd(3, "POST"); err != nil
postRefused == cres.err # Nil

\* RawPost: cmd(3, "POST"), the article's lines, cmd(240, ".")
RawPost ==
    \/ \E a \in Articles : Call("RawPost", 3, "POST", a)
    \/ /\ After("RawPost", 1)
       /\ IF postRefused
          THEN Return(cres.err, <<>>, 0)
          ELSE pc' = "post" /\ UNCHANGED <<frame, cres, ret>>
       /\ UNCHANGED <<connVars, rd, histVars, testVars>>
    \/ /\ After("RawPost", 2)
       /\ Return(cres.err, <<>>, 0)
       /\ UNCHANGED <<connVars, rd, histVars, testVars>>

\* RawPost: one turn of its loop over the article's lines
postLoop ==
    /\ pc = "post"
    /\ LET t == postTurn(frame.src)
       IN  IF t.stop
           THEN /\ CallCmd(240, ".")
                /\ UNCHANGED sentLog
           ELSE \/ /\ tx \in {"open", "eof"}
                   /\ sentLog' = Append(sentLog, [cmd |-> "", b |-> t.out])
                   /\ IF t.last
                      THEN CallCmd(240, ".")
                      ELSE /\ frame' = [frame EXCEPT !.src = t.rest]
                           /\ UNCHANGED <<pc, cres, ret>>
                \/ /\ tx # "open"
                   /\ Return(IOError, <<>>, 0)
                   /\ UNCHANGED sentLog
    /\ UNCHANGED <<connVars, rd, rcvLog, payload, delivered, drained, testVars>>

\* Quit: cmd(0, "QUIT"), c.conn.Close(), c.close = true
Quit ==
    \/ Call("Quit", 0, "QUIT", <<>>)
    \/ /\ After("Quit", 1)
       /\ tx' = "closed"
       /\ close' = TRUE
       /\ Return(cres.err, <<>>, 0)
       /\ UNCHANGED <<br, readers, wire, rd, histVars, testVars>>

\* the caller reads from a reader a verb returned to it
CallerRead ==
    /\ pc = "idle"
    /\ \E i \in 1..Len(readers), full \in BOOLEAN :
          LET r == readers[i]
              rr == Read(r, wire, tx, full)
          IN  /\ r.eof \/ r.buf # <<>> \/ CanRead(wire, tx)
              /\ IF rr.panic
                 THEN /\ pc' = "panic"
                      /\ UNCHANGED <<readers, wire, delivered>>
                      /\ rd' = [reader |-> i, err |-> Nil]
                 ELSE /\ readers' = [readers EXCEPT ![i] = rr.r]
                      /\ wire' = rr.wire
                      /\ delivered' = IF i = br THEN delivered \o rr.out ELSE delivered
                      /\ rd' = [reader |-> i, err |-> rr.err]
                      /\ UNCHANGED pc
    /\ frame' = [NoFrame EXCEPT !.verb = "Read", !.wasClosed = close]
    /\ cres' = NoResult
    /\ ret' = NoReturn
    /\ sentLog' = <<>>
    /\ rcvLog' = <<>>
    /\ drained' = 0
    /\ UNCHANGED <<close, br, tx, payload, testVars>>

\* the transport fails: the peer closes the stream or the connection breaks,
\* and the lines not yet received are lost
Fail ==
    /\ tx = "open"
    /\ pc # "panic"
    /\ \E kind \in {"eof", "err"}, k \in 0..Len(wire) :
          /\ tx' = kind
          /\ wire' = SubSeq(wire, 1, k)
    /\ UNCHANGED <<close, br, readers, pc, frame, cres, ret, rd, histVars, testVars>>

cmd == cmdEnter \/ cmdDiscard \/ cmdUnbind \/ cmdWrite \/ cmdStatus

Next ==
    \/ Help \/ ArticleText \/ HeadText \/ Body
    \/ ModeReader \/ Authenticate
    \/ List \/ Capabilities \/ readStrings
    \/ RawPost \/ postLoop
    \/ Quit
    \/ cmd
    \/ CallerRead
    \/ Fail

Spec == Init /\ [][Next]_vars

----------------------------------------------------------------------------
(* What the claims speak of. *)

\* a verb (not a Read of the caller) has returned
Returned(verb) == pc = "idle" /\ frame.verb = verb

\* the decoded text of a block whose content lines are lines
RECURSIVE Flat(_)
Flat(lines) == IF lines = <<>> THEN <<>> ELSE Head(lines) \o <<LF>> \o Flat(Tail(lines))

IsPrefix(s, t) == Len(s) <= Len(t) /\ SubSeq(t, 1, Len(s)) = s

\* the step is a Read of the caller on a body reader
ReadStep == pc = "idle" /\ frame'.verb = "Read" /\ tx' = tx /\ rd'.reader # 0

\* the step is a Read of a body reader, by the caller or by discard
AnyReadStep == (ReadStep \/ pc = "discard") /\ tx' = tx

----------------------------------------------------------------------------
(* C1 *)

\* C1: a command issued while a body is pending is written only after cmd has
\* read that body through its sentinel line (the discarded reader has reached
\* its end, no reader is bound when the command line is written), and every
\* line cmd reads as a status line is a line the server sent as a status line.
C1_DrainBeforeCommand ==
    /\ pc = "write" => br = 0
    /\ drained # 0 => readers[drained].eof
    /\ \A i \in DOMAIN rcvLog : rcvLog[i].role = "status"

\* The part of C1 that holds of the code: as long as the server's stream has
\* not ended, the command line is written after the sentinel has been read,
\* and in every case the line read as the status line is a status line.
DrainReachesSentinelUnlessStreamEnded ==
    /\ pc = "write" => br = 0
    /\ drained # 0 /\ tx = "open" => readers[drained].eof
    /\ \A i \in DOMAIN rcvLog : rcvLog[i].role = "status"

----------------------------------------------------------------------------
(* C2 *)

\* C2: once Quit has returned the closed flag is set and stays set and the
\* transport is closed; a verb called on the closed connection never reaches
\* the discard, the write or a read (it goes from cmd's entry straight to its
\* return), returns an error, and leaves the transport, the lines written and
\* the bound reader as they were.
C2_ClosedForGood ==
    /\ [](Returned("Quit") => close)
    /\ [](close => tx = "closed")
    /\ [][close => close']_vars
    /\ [](frame.wasClosed /\ frame.verb # "Read" => pc \in {"idle", "cmd", "after"})
    /\ [](frame.wasClosed /\ frame.verb # "Read" /\ pc = "idle" => ret.err # Nil)
    /\ [][close => wire' = wire /\ br' = br /\ sentLog' \in {sentLog, <<>>}]_vars

\* a verb was called after Quit while a body was still pending, and failed at once
C2_Witness ==
    /\ Returned("ModeReader")
    /\ frame.wasClosed
    /\ ret.err = ProtocolError("connection closed", <<>>)
    /\ br # 0
    /\ ~readers[br].eof

----------------------------------------------------------------------------
(* C3 *)

\* C3: when a verb has returned an error of the transport, the connection is
\* closed.
C3_TransportErrorCloses ==
    \A v \in {"ModeReader", "Authenticate", "Help", "ArticleText", "HeadText", "Body",
              "List", "Capabilities", "RawPost"} :
        Returned(v) /\ ret.err \in {EOF, IOError} => close

----------------------------------------------------------------------------
(* C6 *)

\* the commands the current call has written, in order
CommandsSent == [i \in DOMAIN sentLog |-> sentLog[i].cmd]

\* C6: Authenticate writes nothing before AUTHINFO USER and AUTHINFO PASS only
\* after it; it goes on to the password step iff the USER reply's code has
\* hundreds digit 3 (never without a reply); it returns no error iff the USER
\* reply was 2xx, or the USER reply was 3xx and the PASS reply 2xx.
C6_Authenticate ==
    frame.verb = "Authenticate" =>
        /\ CommandsSent \in {<<>>, <<"AUTHINFO USER">>,
                             <<"AUTHINFO USER", "AUTHINFO PASS">>}
        /\ frame.step = 2 =>
              Len(rcvLog) >= 1 /\ rcvLog[1].code \div 100 = 3
        /\ pc = "idle" =>
              /\ frame.step = 2 <=> (Len(rcvLog) >= 1 /\ rcvLog[1].code \div 100 = 3)
              /\ ret.err = Nil <=>
                    \/ Len(rcvLog) = 1 /\ rcvLog[1].code \div 100 = 2
                    \/ /\ Len(rcvLog) = 2
                       /\ rcvLog[1].code \div 100 = 3
                       /\ rcvLog[2].code \div 100 = 2

\* the password step was needed and the login succeeded
C6_Witness ==
    /\ Returned("Authenticate")
    /\ CommandsSent = <<"AUTHINFO USER", "AUTHINFO PASS">>
    /\ rcvLog[1].code = 381
    /\ rcvLog[2].code = 281
    /\ ret.err = Nil

----------------------------------------------------------------------------
(* C7 *)

\* C7: what the bound reader has returned is a prefix of the block's content
\* lines, each followed by one line feed, and all of it once the reader is at
\* its end (the sentinel is not in it; every line is there once, in order); a
\* Read takes at most one line from the transport, never a status line; and a
\* Read of a reader that is at its end returns end-of-data and leaves the
\* transport as it is.
C7_BodyReader ==
    /\ [](br # 0 => IsPrefix(delivered, Flat(payload)))
    /\ [](br # 0 /\ readers[br].eof => delivered = Flat(payload))
    /\ [][AnyReadStep => Len(wire') >= Len(wire) - 1]_vars
    /\ [][AnyReadStep /\ wire' # wire => Head(wire).role # "status"]_vars
    /\ [][ReadStep /\ readers[rd'.reader].eof => rd'.err = EOF /\ wire' = wire]_vars

\* a two-line body was read to its end by the caller, and read once more
C7_Witness ==
    /\ Returned("Read")
    /\ br # 0
    /\ readers[br].eof
    /\ Len(payload) = 2
    /\ delivered = Flat(payload)
    /\ rd = [reader |-> br, err |-> EOF]
    /\ tx = "open"

----------------------------------------------------------------------------
(* C8 *)

\* C8: at most one reader is short of its end; when a new reader is bound,
\* every earlier reader is at its end with nothing buffered; a reader at its
\* end stays there; and once a newer reader has been bound, a Read of the
\* earlier one returns end-of-data and leaves the transport as it is.
C8_OneLiveReader ==
    /\ [](Cardinality({i \in 1..Len(readers) : ~readers[i].eof}) <= 1)
    /\ [][Len(readers') > Len(readers) =>
            \A i \in 1..Len(readers) : readers[i].eof /\ readers[i].buf = <<>>]_vars
    /\ [][\A i \in 1..Len(readers) : readers[i].eof => readers'[i].eof]_vars
    /\ [][ReadStep /\ rd'.reader < Len(readers) =>
            rd'.err = EOF /\ wire' = wire /\ readers' = readers]_vars

\* a second reader is bound and unread, and the caller has read the first again
C8_Witness ==
    /\ Returned("Read")
    /\ Len(readers) = 2
    /\ br = 2
    /\ ~readers[2].eof
    /\ wire # <<>>
    /\ rd = [reader |-> 1, err |-> EOF]

----------------------------------------------------------------------------
(* C9 *)

\* C9: the decoded output of a multi-line reply is the block's content lines:
\* for a body reader at its end, the bytes it returned; for List and
\* Capabilities, the list returned.
C9_DecodedOutput ==
    /\ br # 0 /\ readers[br].eof => delivered = Flat(payload)
    /\ \A v \in {"List", "Capabilities"} :
          Returned(v) /\ ret.err = Nil => ret.list = payload

----------------------------------------------------------------------------
(* RawPost's posting sequence. *)

\* the entries of sentLog that are article lines, and those that are the
\* terminating line
PostedLines == {i \in 1..Len(sentLog) : sentLog[i].cmd = ""}
Terminators == {i \in 1..Len(sentLog) : sentLog[i].cmd = "."}

\* the reply to POST was a well-formed status line whose code is not 3xx
PostRejected == rcvLog # <<>> /\ rcvLog[1].code >= 0 /\ rcvLog[1].code \div 100 # 3

\* C18: RawPost writes article lines (and the terminating line) only after
\* POST was answered 3xx; on another reply code it writes nothing more and
\* returns the structured Error of that reply; the terminating line is written
\* at most once, as the last thing written, when the article is exhausted and
\* its last line has been written; and RawPost returns nil exactly when the
\* reply to the terminating line is 240.
C18_PostingSequence ==
    frame.verb = "RawPost" =>
        /\ sentLog # <<>> => sentLog[1].cmd = "POST"
        /\ \A i \in 2..Len(sentLog) : sentLog[i].cmd # "POST"
        /\ PostedLines \cup Terminators # {} =>
              rcvLog # <<>> /\ rcvLog[1].code \div 100 = 3
        /\ PostRejected =>
              /\ Len(sentLog) = 1
              /\ pc = "idle" =>
                    ret.err = StatusError(rcvLog[1].code, <<"x">>)
        /\ Cardinality(Terminators) <= 1
        /\ \A i \in Terminators : i = Len(sentLog)
        /\ frame.cmd = "." /\ pc # "idle" =>
              LET t == postTurn(frame.src)
              IN  \/ t.stop
                  \/ /\ t.last
                     /\ PostedLines # {}
                     /\ \A i \in PostedLines : i + 1 \notin PostedLines => sentLog[i].b = t.out
        /\ pc = "idle" =>
              (ret.err = Nil <=> Len(rcvLog) = 2 /\ rcvLog[2].code = 240)

\* RawPost has posted an article with a dot line and returned nil
C18_Witness ==
    /\ Returned("RawPost")
    /\ ret.err = Nil
    /\ \E i \in PostedLines : sentLog[i].b = dotdot \o CRLF
    /\ Terminators = {Len(sentLog)}

----------------------------------------------------------------------------
(* A body cut short by the transport. *)

\* C19: a body reader reports the end of data (io.EOF) to its caller only
\* once it has seen the sentinel line, and a command whose drain ended on a
\* reader that has not seen the sentinel writes nothing to the transport and
\* returns an error.
C19_TruncatedBodyIsAnError ==
    /\ frame.verb = "Read" /\ rd.reader # 0 /\ rd.err = EOF => readers[rd.reader].eof
    /\ drained # 0 /\ ~readers[drained].eof =>
          /\ sentLog = <<>>
          /\ pc \notin {"write", "status"}
          /\ pc = "idle" => ret.err # Nil

\* The part of C19 that holds of the code: a failure of the transport other
\* than the end of the stream is reported by Read as it is, and a drain that
\* meets it makes cmd return it with nothing written.
TransportErrorAbortsDrain ==
    /\ frame.verb = "Read" /\ rd.reader # 0 /\ rd.err = EOF /\ tx # "eof" =>
          readers[rd.reader].eof
    /\ drained # 0 /\ tx = "err" => readers[drained].eof

----------------------------------------------------------------------------
(* cmd's reading of a status line, over expected codes and status lines. *)

\* the expected codes the verbs pass to cmd, and others with one, two and
\* three digits
ExpectCodes ==
    {0, 1, 2, 3, 9, 10, 20, 22, 23, 99, 100, 101, 111, 200, 205, 211, 215,
     220, 221, 222, 223, 224, 230, 231, 240, 999}

ReplyDigits == {0, 1, 2, 3, 9}

\* well-formed status lines: three digits, a space and a text, with white
\* space around them that TrimSpace removes
WellFormed ==
    {[raw   |-> lead \o <<DigitChars[a + 1], DigitChars[b + 1], DigitChars[c + 1], SP>>
                     \o text \o pad \o eol,
      class |-> "ok", code |-> (100 * a) + (10 * b) + c, text |-> text] :
        a \in ReplyDigits, b \in ReplyDigits, c \in ReplyDigits,
        text \in {<<"x">>, <<"x", SP, "y">>},
        lead \in {<<>>, <<SP>>}, pad \in {<<>>, <<SP>>}, eol \in LineEndings}

\* status lines that are not well formed, by what is wrong with them
MalformedLines ==
    [short  |-> {<<>>, <<"2">>, <<"2", "0">>, <<"2", "0", "0">>, <<"2", "0", "0", SP>>,
                 <<SP, "2", "0", SP>>},
     nosep  |-> {<<"2", "0", "0", "x">>, <<"2", "0", "0", "0", SP, "x">>,
                 <<"2", "0", "0", "-", "x">>, <<"2", "0", "0", "\t", "x">>,
                 <<SP, "2", "0", SP, "y">>},
     nonnum |-> {<<"2", "x", "0", SP, "y">>, <<"+", "2", "0", SP, "y">>,
                 <<"-", "2", "0", SP, "y">>, <<"a", "b", "c", SP, "d">>,
                 <<"2", SP, "0", SP, "y">>}]

Malformed ==
    {[raw |-> l \o eol, class |-> k, code |-> 0, text |-> <<>>] :
        k \in {"short"}, l \in MalformedLines.short, eol \in LineEndings}
    \cup {[raw |-> l \o eol, class |-> k, code |-> 0, text |-> <<>>] :
        k \in {"nosep"}, l \in MalformedLines.nosep, eol \in LineEndings}
    \cup {[raw |-> l \o eol, class |-> k, code |-> 0, text |-> <<>>] :
        k \in {"nonnum"}, l \in MalformedLines.nonnum, eol \in LineEndings}

StatusInputs ==
    {[kind |-> "status", expect |-> e, raw |-> l.raw, class |-> l.class,
      code |-> l.code, text |-> l.text] :
        e \in ExpectCodes, l \in WellFormed \cup Malformed}

InitStatus == InitConn /\ tin \in StatusInputs /\ tout = NoTest

\* cmd from the return of ReadString to its own return
cmdParse ==
    /\ tin.kind = "status"
    /\ tout = NoTest
    /\ tout' = [kind |-> "status", res |-> cmdReply(tin.expect, tin.raw)]
    /\ UNCHANGED <<connVars, pc, frame, cres, ret, rd, histVars, tin>>

NextStatus == cmdParse

SpecStatus == InitStatus /\ [][NextStatus]_vars

\* the rule of acceptance as the claim words it
Accepts(e, c) ==
    \/ e = 0
    \/ 1 <= e /\ e <= 9 /\ c \div 100 = e
    \/ 10 <= e /\ e <= 99 /\ c \div 10 = e
    \/ 100 <= e /\ e <= 999 /\ c = e

\* C4: for an expected code of at most three digits and a well-formed status
\* line with code c, cmd returns no error iff the expected code is 0, or has
\* one digit and is c div 100, or two digits and is c div 10, or three digits
\* and is c; when it returns no error it returns c.
C4_ExpectedCode ==
    tout.kind = "status" /\ tin.class = "ok" =>
        /\ tout.res.err = Nil <=> Accepts(tin.expect, tin.code)
        /\ tout.res.err = Nil => tout.res.code = tin.code

\* MODE READER's two-digit expected code accepts 201, whose last digit it
\* does not specify
C4_Witness ==
    /\ tout.kind = "status"
    /\ tin.expect = 20
    /\ tin.code = 201
    /\ tout.res.err = Nil
    /\ tout.res.code = 201

\* C5: cmd returns a ProtocolError, with code 0 and empty text, exactly when
\* the trimmed status line is shorter than 4 characters, or its 4th character
\* is no space, or its first 3 characters are no number; it returns an Error
\* holding the reply's code and text, and that code and text as results,
\* exactly when the line is well formed and its code does not match the
\* expected code.
C5_ReplyFailures ==
    tout.kind = "status" =>
        LET res == tout.res IN
        /\ res.err.kind = "ProtocolError" <=> tin.class # "ok"
        /\ tin.class \in {"short", "nosep"} => res.err.what = "short response"
        /\ tin.class = "nonnum" => res.err.what = "invalid response code"
        /\ res.err.kind = "ProtocolError" => res.code = 0 /\ res.line = <<>>
        /\ res.err.kind = "Error" <=>
              tin.class = "ok" /\ ~Accepts(tin.expect, tin.code)
        /\ res.err.kind = "Error" =>
              /\ res.err = StatusError(tin.code, tin.text)
              /\ res.code = tin.code
              /\ res.line = tin.text
        /\ res.err.kind \in {"nil", "ProtocolError", "Error"}

\* a well-formed 200 answered to LIST, which expects 215: a structured Error
C5_Witness ==
    /\ tout.kind = "status"
    /\ tin.expect = 215
    /\ tin.raw = <<SP, "2", "0", "0", SP, "x", SP, "y", SP>> \o CRLF
    /\ tout.res = [code |-> 200, line |-> <<"x", SP, "y">>,
                   err |-> StatusError(200, <<"x", SP, "y">>)]

----------------------------------------------------------------------------
(* RawPost's writing of an article and the body reader's reading of it. *)

MaxLineLen == 3
MaxPostLines == 2

\* content lines of dots and letters, the empty line among them
CodecLines == UNION {[1..n -> {DOT, "a"}] : n \in 0..MaxLineLen}

CodecTexts == UNION {[1..n -> CodecLines] : n \in 0..MaxPostLines}

\* the article text of lines: every line ends in a line feed, the last one
\* only if closed says so
articleOf(lines, closed) ==
    IF closed \/ lines = <<>> \/ lines[Len(lines)] = <<>>
    THEN Flat(lines)
    ELSE SubSeq(Flat(lines), 1, Len(Flat(lines)) - 1)

\* RawPost's loop over the article text src: the lines it writes
RECURSIVE postAll(_)
postAll(src) ==
    LET t == postTurn(src) IN
    IF t.stop THEN <<>>
    ELSE <<t.out>> \o (IF t.last THEN <<>> ELSE postAll(t.rest))

\* what RawPost writes after POST: the lines of the loop, then cmd(240, ".")
posted(src) ==
    LET ls == postAll(src) IN
    [i \in 1..Len(ls) |-> [b |-> ls[i], role |-> "body", code |-> 0]]
        \o <<[b |-> <<DOT>> \o CRLF, role |-> "end", code |-> 0]>>

\* ioutil.ReadAll on reader r: Read until it returns an error, io.EOF being
\* no error
RECURSIVE readAll(_, _, _, _)
readAll(r, w, t, full) ==
    LET rr == Read(r, w, t, full) IN
    IF rr.panic THEN [out |-> <<>>, wire |-> w, err |-> Nil, panic |-> TRUE]
    ELSE IF rr.err = EOF THEN [out |-> <<>>, wire |-> rr.wire, err |-> Nil, panic |-> FALSE]
    ELSE IF rr.err # Nil THEN [out |-> <<>>, wire |-> rr.wire, err |-> rr.err, panic |-> FALSE]
    ELSE LET rest == readAll(rr.r, rr.wire, t, full)
         IN  [rest EXCEPT !.out = rr.out \o @]

\* an article for RawPost
PostInput(ls, closed, full) ==
    [kind |-> "post", lines |-> ls, src |-> articleOf(ls, closed), block |-> <<>>,
     full |-> full]

\* a dot-stuffed block for a body reader
BlockInput(ls, full) ==
    [kind |-> "block", lines |-> ls, src |-> <<>>, block |-> Block(ls, CRLF),
     full |-> full]

NoCodec == [kind |-> "codec", stage |-> 0, wire |-> <<>>, text |-> <<>>, left |-> <<>>,
            err |-> Nil, panic |-> FALSE]

InitCodec ==
    /\ InitConn
    /\ tout = NoCodec
    /\ \E ls \in CodecTexts, full \in BOOLEAN :
          \/ \E closed \in BOOLEAN : tin = PostInput(ls, closed, full)
          \/ tin = BlockInput(ls, full)

\* RawPost writes the article: the one given, or the one read from the block
postEncode ==
    /\ tout.kind = "codec"
    /\ \/ tin.kind = "post" /\ tout.stage = 0
       \/ tin.kind = "block" /\ tout.stage = 1
    /\ tout' = [tout EXCEPT !.stage = @ + 1,
                            !.wire = posted(IF tin.kind = "post" THEN tin.src ELSE tout.text)]
    /\ UNCHANGED <<connVars, pc, frame, cres, ret, rd, histVars, tin>>

\* a body reader is read to its end: on the block given, or on what RawPost wrote
bodyDecode ==
    /\ tout.kind = "codec"
    /\ \/ tin.kind = "post" /\ tout.stage = 1
       \/ tin.kind = "block" /\ tout.stage = 0
    /\ LET w == IF tin.kind = "post" THEN tout.wire ELSE tin.block
           ra == readAll(NewBodyReader, w, "open", tin.full)
       IN  tout' = [tout EXCEPT !.stage = @ + 1, !.text = ra.out, !.left = ra.wire,
                                !.err = ra.err, !.panic = ra.panic]
    /\ UNCHANGED <<connVars, pc, frame, cres, ret, rd, histVars, tin>>

NextCodec == postEncode \/ bodyDecode

SpecCodec == InitCodec /\ [][NextCodec]_vars

\* C10: for content lines of dots and letters, RawPost writes each line with a
\* leading dot doubled, and what it writes, with the sentinel line after it,
\* is read by a body reader as the same lines, each ended by one line feed,
\* the reader stopping at the sentinel line with nothing left over; and a
\* block of dot-stuffed lines read by a body reader and written again by
\* RawPost is the same block.
C10_RoundTrip ==
    tout.kind = "codec" =>
        /\ tin.kind = "post" /\ tout.stage >= 1 => tout.wire = Block(tin.lines, CRLF)
        /\ tin.kind = "post" /\ tout.stage = 2 =>
              /\ tout.text = Flat(tin.lines)
              /\ tout.left = <<>>
              /\ tout.err = Nil /\ ~tout.panic
        /\ tin.kind = "block" /\ tout.stage >= 1 =>
              /\ tout.text = Flat(tin.lines)
              /\ tout.left = <<>>
              /\ tout.err = Nil /\ ~tout.panic
        /\ tin.kind = "block" /\ tout.stage = 2 => tout.wire = tin.block

\* an article of a line of two dots and a letter and a line that is one dot,
\* the last without its line feed, was written and read back
C10_Witness ==
    /\ tin.kind = "post"
    /\ tin.lines = <<(<<DOT, DOT, "a">>), (<<DOT>>)>>
    /\ tin.src = <<DOT, DOT, "a", LF, DOT>>
    /\ tout.kind = "codec"
    /\ tout.stage = 2
    /\ tout.wire[1].b = <<DOT, DOT, DOT, "a", CR, LF>>
    /\ tout.wire[2].b = <<DOT, DOT, CR, LF>>
    /\ tout.text = <<DOT, DOT, "a", LF, DOT, LF>>

----------------------------------------------------------------------------
(* NewNews: sort.Strings and the forward pass that drops repeated lines. *)

MaxIds == 3

\* the order of the bytes that occur in the lines
ByteOrder == <<"\t", LF, CR, SP, "+", "-", DOT, "0", "1", "2", "3", "4", "5", "6", "7",
               "8", "9", ":", "A", "B", "a", "b", "c", "d", "e", "x", "y">>

ByteRank(ch) == CHOOSE i \in 1..Len(ByteOrder) : ByteOrder[i] = ch

\* a < b for Go strings: byte-wise, a proper prefix first
RECURSIVE StringLess(_, _)
StringLess(a, b) ==
    IF b = <<>> THEN FALSE
    ELSE IF a = <<>> THEN TRUE
    ELSE IF Head(a) # Head(b) THEN ByteRank(Head(a)) < ByteRank(Head(b))
    ELSE StringLess(Tail(a), Tail(b))

\* s with x put before the first element greater than it
RECURSIVE sortInsert(_, _)
sortInsert(x, s) ==
    IF s = <<>> THEN <<x>>
    ELSE IF StringLess(x, Head(s)) THEN <<x>> \o s
    ELSE <<Head(s)>> \o sortInsert(x, Tail(s))

\* sort.Strings(id)
RECURSIVE sortStrings(_)
sortStrings(id) ==
    IF id = <<>> THEN <<>> ELSE sortInsert(Head(id), sortStrings(Tail(id)))

\* a NewNews that keeps every line
keepIdAlways(id, r) == TRUE

\* NewNews: r == 0 || id[r-1] != s, with r counted from 1 and s = id[r]
keepId(id, r) == r = 1 \/ id[r - 1] # id[r]

\* NewNews: the loop over id from index r on, writing at index w (in place)
RECURSIVE compact(_, _, _)
compact(id, w, r) ==
    IF r > Len(id) THEN SubSeq(id, 1, w - 1)
    ELSE IF keepId(id, r)
    THEN compact([id EXCEPT ![w] = id[r]], w + 1, r + 1)
    ELSE compact(id, w, r + 1)

\* NewNews once readStrings has returned id
newsResult(id) == compact(sortStrings(id), 1, 1)

\* the lines a server lists
NewsIds == {<<>>, <<"a">>, <<"a", "b">>, <<"b">>}

NewsInput(ids) == [kind |-> "news", ids |-> ids]

InitNews ==
    /\ InitConn
    /\ tout = NoTest
    /\ \E n \in 0..MaxIds : \E ids \in [1..n -> NewsIds] : tin = NewsInput(ids)

\* NewNews from the return of readStrings to its own return
newsCanon ==
    /\ tin.kind = "news"
    /\ tout = NoTest
    /\ tout' = [kind |-> "news", id |-> newsResult(tin.ids)]
    /\ UNCHANGED <<connVars, pc, frame, cres, ret, rd, histVars, tin>>

NextNews == newsCanon

SpecNews == InitNews /\ [][NextNews]_vars

Range(s) == {s[i] : i \in DOMAIN s}

\* C11: the list NewNews returns is in strictly ascending order (so it is
\* sorted and holds no line twice), holds exactly the lines received, and is
\* left as it is by the same sorting and dropping of repeats.
C11_NewNewsSortedUnique ==
    tout.kind = "news" =>
        /\ \A i \in 1..(Len(tout.id) - 1) : StringLess(tout.id[i], tout.id[i + 1])
        /\ \A i, j \in DOMAIN tout.id : i # j => tout.id[i] # tout.id[j]
        /\ Range(tout.id) = Range(tin.ids)
        /\ newsResult(tout.id) = tout.id

\* three lines received out of order, one of them twice
C11_Witness ==
    /\ tout.kind = "news"
    /\ tin.ids = <<(<<"b">>), (<<"a", "b">>), (<<"b">>)>>
    /\ tout.id = <<(<<"a", "b">>), (<<"b">>)>>

----------------------------------------------------------------------------
(* readHeader over the lines a body reader hands to the bufio.Reader.  The   *)
(* body reader returns whole lines that end in "\n" and then io.EOF, so the   *)
(* stream is a sequence of lines; a line is held without its "\n".           *)

MaxHeaderLines == 3

\* the first index of ch in line, 0 if there is none (bytes.Index + 1)
indexOf(line, ch) ==
    IF \E i \in 1..Len(line) : line[i] = ch
    THEN CHOOSE i \in 1..Len(line) : line[i] = ch /\ \A j \in 1..(i - 1) : line[j] # ch
    ELSE 0

\* readLineBytes: the line without its trailing ' ', '\r', '\t', '\n'
chopTrailing(p) == TrimRight(p)

\* readKeyValue: line with its leading ' ' and '\t' skipped
RECURSIVE skipBlanks(_)
skipBlanks(line) ==
    IF line # <<>> /\ Head(line) \in {SP, TAB} THEN skipBlanks(Tail(line)) ELSE line

\* a readKeyValue that takes the line after a field for an extension line
\* unless it is empty
isExtensionAny(line) == line # <<>>

\* readKeyValue: the line at the reader is an extension line
isExtension(line) == line # <<>> /\ Head(line) \in {SP, TAB}

\* readKeyValue: the loop over the extension lines of a field, ls being the
\* lines not read yet
RECURSIVE extension(_, _)
extension(value, ls) ==
    IF ls = <<>> THEN [value |-> value, rest |-> ls]
    ELSE IF ~isExtension(Head(ls)) THEN [value |-> value, rest |-> ls]
    ELSE extension(value \o <<SP>> \o chopTrailing(skipBlanks(Head(ls))), Tail(ls))

\* readKeyValue when readLineBytes returns io.ErrUnexpectedEOF
keyValueAtEOF == [key |-> <<>>, value |-> <<>>, err |-> Nil, rest |-> <<>>]

\* readKeyValue on the lines ls
readKeyValue(ls) ==
    IF ls = <<>> THEN keyValueAtEOF
    ELSE LET line == chopTrailing(Head(ls))
             i == indexOf(line, COLON)
             key == SubSeq(line, 1, i - 1)
         IN  IF Len(line) = 0
             THEN [key |-> <<>>, value |-> <<>>, err |-> Nil, rest |-> Tail(ls)]
             ELSE IF i = 0 \/ indexOf(key, SP) # 0
             THEN [key |-> <<>>, value |-> <<>>,
                   err |-> ProtocolError("malformed header line", line), rest |-> Tail(ls)]
             ELSE LET x == extension(skipBlanks(SubSeq(line, i + 1, Len(line))), Tail(ls))
                  IN  [key |-> key, value |-> x.value, err |-> Nil, rest |-> x.rest]

Upper(ch) == CASE ch = "a" -> "A" [] ch = "b" -> "B" [] OTHER -> ch
Lower(ch) == CASE ch = "A" -> "a" [] ch = "B" -> "b" [] OTHER -> ch

\* http.CanonicalHeaderKey on a key of letters
CanonicalHeaderKey(key) ==
    [i \in 1..Len(key) |-> IF i = 1 THEN Upper(key[i]) ELSE Lower(key[i])]

\* a readHeader that keeps the last value of a key only
addValueLast(h, key, value) ==
    [k \in DOMAIN h \cup {key} |-> IF k = key THEN <<value>> ELSE h[k]]

\* readHeader: res.Header with value added under key
addValue(h, key, value) ==
    [k \in DOMAIN h \cup {key} |->
        IF k # key THEN h[k]
        ELSE IF key \in DOMAIN h THEN Append(h[key], value) ELSE <<value>>]

\* map[string][]string{}
NoHeader == [k \in {} |-> <<>>]

\* readHeader's loop: h the header so far, fields the pairs readKeyValue has
\* returned so far, ls the lines not read yet
RECURSIVE readHeaderLoop(_, _, _)
readHeaderLoop(h, fields, ls) ==
    LET kv == readKeyValue(ls) IN
    IF kv.err # Nil
    THEN [ok |-> FALSE, header |-> NoHeader, err |-> kv.err, fields |-> fields, rest |-> kv.rest]
    ELSE IF kv.key = <<>>
    THEN [ok |-> TRUE, header |-> h, err |-> Nil, fields |-> fields, rest |-> kv.rest]
    ELSE readHeaderLoop(addValue(h, CanonicalHeaderKey(kv.key), kv.value),
                        Append(fields, [key |-> kv.key, value |-> kv.value]), kv.rest)

readHeader(ls) == readHeaderLoop(NoHeader, <<>>, ls)

\* lines of an article's header: fields, extension lines, the empty line, a
\* line of one space, and lines that are no header lines
HeaderLines ==
    {<<"a", COLON, "x">>, <<"A", COLON, SP, "y", SP>>, <<"b", COLON>>,
     <<SP, "c">>, <<TAB, "d", SP>>, <<SP>>, <<>>,
     <<"a", "x">>, <<"a", SP, "b", COLON, "x">>}

HeaderInput(ls) == [kind |-> "header", lines |-> ls]

InitHeader ==
    /\ InitConn
    /\ tout = NoTest
    /\ \E n \in 0..MaxHeaderLines : \E ls \in [1..n -> HeaderLines] : tin = HeaderInput(ls)

\* Conn.readHeader on a reader that holds the lines and then io.EOF
parseHeader ==
    /\ tin.kind = "header"
    /\ tout = NoTest
    /\ tout' = [kind |-> "header", res |-> readHeader(tin.lines)]
    /\ UNCHANGED <<connVars, pc, frame, cres, ret, rd, histVars, tin>>

NextHeader == parseHeader

SpecHeader == InitHeader /\ [][NextHeader]_vars

\* what the claims say of a header block

\* the line begins with a space or a tab
IsContinuation(l) == l # <<>> /\ l[1] \in {SP, TAB}

\* the line is a field line: a key without a space, a colon, a value
IsFieldLine(l) ==
    \E i \in 2..Len(l) :
        /\ l[i] = COLON
        /\ \A j \in 1..(i - 1) : l[j] \notin {COLON, SP, TAB}

FieldKey(l) == SubSeq(l, 1, indexOf(l, COLON) - 1)

\* the value on the field line itself
FirstValue(l) == TrimSpace(SubSeq(l, indexOf(l, COLON) + 1, Len(l)))

\* the number of continuation lines at the head of ls
RECURSIVE RunLen(_)
RunLen(ls) == IF ls # <<>> /\ IsContinuation(Head(ls)) THEN 1 + RunLen(Tail(ls)) ELSE 0

\* v followed, for each line of run, by one space and the line trimmed
RECURSIVE Folded(_, _)
Folded(v, run) ==
    IF run = <<>> THEN v ELSE Folded(v \o <<SP>> \o TrimSpace(Head(run)), Tail(run))

\* the fields at the head of ls, each with the continuation lines that follow it
RECURSIVE ExpectedFields(_)
ExpectedFields(ls) ==
    IF ls = <<>> \/ ~IsFieldLine(Head(ls)) THEN <<>>
    ELSE LET k == RunLen(Tail(ls))
         IN  <<[key |-> FieldKey(Head(ls)),
                value |-> Folded(FirstValue(Head(ls)), SubSeq(ls, 2, k + 1))]>>
                 \o ExpectedFields(SubSeq(ls, k + 2, Len(ls)))

\* the values of the fields whose key is k but for the case of its letters
ValuesOf(fields, k) ==
    LET Same(f) == CanonicalHeaderKey(f.key) = k
        sel == SelectSeq(fields, Same)
    IN  [i \in 1..Len(sel) |-> sel[i].value]

\* C12: when the lines of a header end (io.EOF) without a blank line among
\* them, readHeader returns an error and no header.
C12_HeaderEndsAtBlankLine ==
    /\ tout.kind = "header"
    /\ tin.lines # <<>>
    /\ \A i \in DOMAIN tin.lines : TrimSpace(tin.lines[i]) # <<>>
    => ~tout.res.ok /\ tout.res.err # Nil

\* C13: the values readKeyValue returns are, field by field, the value on
\* the field's line followed, for each line after it that begins with a space
\* or a tab, by one space and that line without the white space around it;
\* the next field begins at the first line that does not begin so.
C13_ContinuationFolding ==
    tout.kind = "header" => tout.res.fields = ExpectedFields(tin.lines)

\* a field with two continuation lines, then a second field
C13_Witness ==
    /\ tout.kind = "header"
    /\ tin.lines = <<(<<"A", COLON, SP, "y", SP>>), (<<SP, "c">>), (<<TAB, "d", SP>>)>>
    /\ tout.res.ok
    /\ tout.res.fields = <<[key |-> <<"A">>, value |-> <<"y", SP, "c", SP, "d">>]>>

\* C14: in a header parsed without error every field name, taken without
\* regard to the case of its letters, is one key, and the key's values are the
\* values of the fields of that name, one for each, in the order of the lines.
C14_RepeatedFields ==
    tout.kind = "header" /\ tout.res.ok =>
        /\ DOMAIN tout.res.header =
              {CanonicalHeaderKey(tout.res.fields[i].key) : i \in DOMAIN tout.res.fields}
        /\ \A k \in DOMAIN tout.res.header :
              tout.res.header[k] = ValuesOf(ExpectedFields(tin.lines), k)

\* the same name three times, in small and in capital letters
C14_Witness ==
    /\ tout.kind = "header"
    /\ tin.lines = <<(<<"a", COLON, "x">>), (<<"A", COLON, SP, "y", SP>>), (<<"a", COLON, "x">>)>>
    /\ tout.res.ok
    /\ DOMAIN tout.res.header = {<<"A">>}
    /\ tout.res.header[<<"A">>] = <<(<<"x">>), (<<"y">>), (<<"x">>)>>

----------------------------------------------------------------------------
(* RawPost on articles whose lines end in "\n" or in "\r\n". *)

\* the text of lines with every line ended by eol
RECURSIVE Joined(_, _)
Joined(lines, eol) ==
    IF lines = <<>> THEN <<>> ELSE Head(lines) \o eol \o Joined(Tail(lines), eol)

\* the article text of lines: every line ends in eol, the last one only if
\* closed says so
articleWith(lines, eol, closed) ==
    IF closed \/ lines = <<>> \/ lines[Len(lines)] = <<>>
    THEN Joined(lines, eol)
    ELSE SubSeq(Joined(lines, eol), 1, Len(Joined(lines, eol)) - Len(eol))

InitPost ==
    /\ InitConn
    /\ tout = NoCodec
    /\ \E ls \in CodecTexts, eol \in LineEndings, closed \in BOOLEAN :
          tin = [PostInput(ls, closed, FALSE) EXCEPT !.src = articleWith(ls, eol, closed)]

NextPost == postEncode

SpecPost == InitPost /\ [][NextPost]_vars

\* C15: for an article whose lines end in a line feed, in carriage return and
\* line feed, or (the last line) in nothing, every line RawPost writes is the
\* content of the article's line, a leading dot doubled, followed by one
\* carriage return and line feed and holding no other line-ending character.
C15_PostLinesEndInCRLF ==
    tout.kind = "codec" /\ tin.kind = "post" /\ tout.stage >= 1 =>
        /\ Len(tout.wire) = Len(tin.lines) + 1
        /\ \A i \in 1..Len(tin.lines) :
              /\ tout.wire[i].b = stuffed(tin.lines[i]) \o CRLF
              /\ \A j \in 1..(Len(tout.wire[i].b) - 2) : tout.wire[i].b[j] \notin {CR, LF}

----------------------------------------------------------------------------
(* Group: the parsing of the text of the 211 reply. *)

MaxTokens == 4

\* strings.SplitN(s, sep, n) for a separator of one byte and n > 0
RECURSIVE SplitN(_, _, _)
SplitN(s, sep, n) ==
    LET i == indexOf(s, sep) IN
    IF n = 1 \/ i = 0 THEN <<s>>
    ELSE <<SubSeq(s, 1, i - 1)>> \o SplitN(SubSeq(s, i + 1, Len(s)), sep, n - 1)

\* strconv.Atoi: an optional sign and decimal digits
Atoi(s) ==
    LET signed == s # <<>> /\ Head(s) \in {"+", "-"}
        digits == IF signed THEN Tail(s) ELSE s
    IN  IF ~IsUint(digits) THEN [ok |-> FALSE, n |-> 0]
        ELSE [ok |-> TRUE,
              n |-> IF signed /\ Head(s) = "-" THEN 0 - ParseUint(digits)
                    ELSE ParseUint(digits)]

\* a Group that wants the comment as well
groupTooFewFour(ss) == Len(ss) < 4

\* Group: len(ss) < 3
groupTooFew(ss) == Len(ss) < 3

\* Group once cmd(211, "GROUP %s") has returned r
groupParse(r) ==
    IF r.err # Nil THEN [number |-> 0, low |-> 0, high |-> 0, err |-> r.err]
    ELSE LET ss == SplitN(r.line, SP, 4) IN
         IF groupTooFew(ss) \/ \E i \in 1..3 : ~Atoi(ss[i]).ok
         THEN [number |-> 0, low |-> 0, high |-> 0,
               err |-> ProtocolError("bad group response", r.line)]
         ELSE [number |-> Atoi(ss[1]).n, low |-> Atoi(ss[2]).n, high |-> Atoi(ss[3]).n,
               err |-> Nil]

\* the tokens of a reply text, with the numbers they stand for
GroupTokens ==
    {[t |-> <<"4">>, int |-> TRUE, n |-> 4], [t |-> <<"1", "0">>, int |-> TRUE, n |-> 10],
     [t |-> <<"-", "1">>, int |-> TRUE, n |-> 0 - 1], [t |-> <<"x">>, int |-> FALSE, n |-> 0],
     [t |-> <<>>, int |-> FALSE, n |-> 0]}

GroupReplyCodes == {211, 411}

RECURSIVE JoinTokens(_)
JoinTokens(toks) ==
    IF toks = <<>> THEN <<>>
    ELSE IF Len(toks) = 1 THEN toks[1].t
    ELSE toks[1].t \o <<SP>> \o JoinTokens(Tail(toks))

\* the status line with code and the tokens, one space between them
GroupInput(code, toks, eol) ==
    [kind |-> "group", code |-> code, toks |-> toks,
     raw |-> SubSeq(StatusLine(code), 1, 4) \o JoinTokens(toks) \o eol]

\* the reply of the protocol's example: 211 4 1 4 comp.lang.misc
GroupExample ==
    [kind |-> "group", code |-> 211,
     toks |-> <<[t |-> <<"4">>, int |-> TRUE, n |-> 4], [t |-> <<"1">>, int |-> TRUE, n |-> 1],
                [t |-> <<"4">>, int |-> TRUE, n |-> 4],
                [t |-> <<"c", "o", "m", "p", DOT, "l", "a", "n", "g", DOT, "m", "i", "s", "c">>,
                 int |-> FALSE, n |-> 0]>>,
     raw |-> <<"2", "1", "1", SP, "4", SP, "1", SP, "4", SP,
               "c", "o", "m", "p", DOT, "l", "a", "n", "g", DOT, "m", "i", "s", "c">> \o CRLF]

InitGroup ==
    /\ InitConn
    /\ tout = NoTest
    /\ \/ tin = GroupExample
       \/ \E n \in 0..MaxTokens : \E toks \in [1..n -> GroupTokens] :
             \E code \in GroupReplyCodes, eol \in LineEndings :
                tin = GroupInput(code, toks, eol)

\* Group from the return of ReadString in cmd to its own return
groupReply ==
    /\ tin.kind = "group"
    /\ tout = NoTest
    /\ tout' = [kind |-> "group", res |-> groupParse(cmdReply(211, tin.raw))]
    /\ UNCHANGED <<connVars, pc, frame, cres, ret, rd, histVars, tin>>

NextGroup == groupReply

SpecGroup == InitGroup /\ [][NextGroup]_vars

\* the tokens of the reply text: those of the line without the white space
\* at its end
RECURSIVE TextTokens(_)
TextTokens(toks) ==
    IF toks # <<>> /\ toks[Len(toks)].t = <<>> THEN TextTokens(SubSeq(toks, 1, Len(toks) - 1))
    ELSE toks

\* C16: for a reply with a text, Group returns a structured Error when the
\* code is not 211; for code 211 it returns the numbers of the first three
\* tokens of the text, whatever follows them, when there are three and all
\* three are integers, and a ProtocolError (and no numbers) otherwise.
C16_GroupReply ==
    tout.kind = "group" =>
        LET toks == TextTokens(tin.toks)
            res == tout.res
        IN  /\ tin.code # 211 /\ toks # <<>> =>
                  res.err.kind = "Error" /\ res.err.code = tin.code
            /\ tin.code = 211 /\ Len(toks) >= 3 /\ (\A i \in 1..3 : toks[i].int) =>
                  res = [number |-> toks[1].n, low |-> toks[2].n, high |-> toks[3].n,
                         err |-> Nil]
            /\ tin.code = 211 /\ (Len(toks) < 3 \/ \E i \in 1..Min(3, Len(toks)) : ~toks[i].int) =>
                  /\ res.err.kind = "ProtocolError"
                  /\ res.number = 0 /\ res.low = 0 /\ res.high = 0

\* the example: 211 4 1 4 comp.lang.misc gives (4, 1, 4) and no error
C16_Witness ==
    /\ tout.kind = "group"
    /\ tin = GroupExample
    /\ tout.res = [number |-> 4, low |-> 1, high |-> 4, err |-> Nil]

----------------------------------------------------------------------------
(* Overview: the parsing of the lines of the reply to OVER. *)

MaxRows == 2

\* time.Time{}
ZeroTime == [zero |-> TRUE, text |-> <<>>]

\* parseDate: the one date the lines hold that it can parse is "d"
parseDate(field) ==
    IF field = <<"d">> THEN [ok |-> TRUE, t |-> [zero |-> FALSE, text |-> field]]
    ELSE [ok |-> FALSE, t |-> ZeroTime]

\* strings.Split(s, sep)
Split(s, sep) == SplitN(s, sep, Len(s) + 1)

\* Overview: the row of one line, or the error it ends the call with
overviewRow(line) ==
    LET ss == SplitN(TrimSpace(line), TAB, 9) IN
    IF Len(ss) < 8
    THEN [err |-> ProtocolError("short header listing line", line)]
    ELSE IF ~Atoi(ss[1]).ok
    THEN [err |-> ProtocolError("bad message number", line)]
    ELSE IF ~Atoi(ss[7]).ok
    THEN [err |-> ProtocolError("bad byte count", line)]
    ELSE IF ~Atoi(ss[8]).ok
    THEN [err |-> ProtocolError("bad line count", line)]
    ELSE [err |-> Nil,
          row |-> [MessageNumber |-> Atoi(ss[1]).n, Subject |-> ss[2], From |-> ss[3],
                   Date |-> parseDate(ss[4]).t, MessageId |-> ss[5],
                   References |-> Split(ss[6], SP), Bytes |-> Atoi(ss[7]).n,
                   Lines |-> Atoi(ss[8]).n, Extra |-> SubSeq(ss, 9, Len(ss))]]

\* Overview's loop over the lines readStrings returned
RECURSIVE overviewRows(_, _)
overviewRows(result, lines) ==
    IF lines = <<>> THEN [result |-> result, err |-> Nil]
    ELSE LET r == overviewRow(Head(lines)) IN
         IF r.err # Nil THEN [result |-> <<>>, err |-> r.err]
         ELSE overviewRows(Append(result, r.row), Tail(lines))

\* the fields of a row as a server sends them
GoodRow == <<(<<"1">>), (<<"s">>), (<<"f">>), (<<"d">>), (<<"m">>), (<<"r", SP, "r">>),
             (<<"1", "0">>), (<<"5">>)>>

\* rows: the good one, rows with one field that is no number or no date,
\* a row of seven fields, and rows with further fields
OverviewRowFields ==
    {GoodRow,
     [GoodRow EXCEPT ![1] = <<"x">>], [GoodRow EXCEPT ![4] = <<>>],
     [GoodRow EXCEPT ![4] = <<"x">>], [GoodRow EXCEPT ![7] = <<"x">>],
     [GoodRow EXCEPT ![8] = <<"x">>], SubSeq(GoodRow, 1, 7),
     GoodRow \o <<(<<"e">>)>>, GoodRow \o <<(<<"e">>), (<<"e">>)>>,
     GoodRow \o <<(<<"e", SP>>)>>, GoodRow \o <<(<<>>)>>}

\* the fields joined by sep
RECURSIVE JoinFields(_, _)
JoinFields(fields, sep) ==
    IF fields = <<>> THEN <<>>
    ELSE IF Len(fields) = 1 THEN fields[1]
    ELSE fields[1] \o <<sep>> \o JoinFields(Tail(fields), sep)

OverviewInput(rows) ==
    [kind |-> "over", rows |-> rows,
     lines |-> [i \in 1..Len(rows) |-> JoinFields(rows[i], TAB)]]

InitOverview ==
    /\ InitConn
    /\ tout = NoTest
    /\ \E n \in 0..MaxRows : \E rows \in [1..n -> OverviewRowFields] :
          tin = OverviewInput(rows)

\* Overview from the return of readStrings to its own return
overviewParse ==
    /\ tin.kind = "over"
    /\ tout = NoTest
    /\ tout' = [kind |-> "over", res |-> overviewRows(<<>>, tin.lines)]
    /\ UNCHANGED <<connVars, pc, frame, cres, ret, rd, histVars, tin>>

NextOverview == overviewParse

SpecOverview == InitOverview /\ [][NextOverview]_vars

\* the numbers the fields stand for
FieldInt(f) ==
    CASE f = <<"1">> -> [int |-> TRUE, n |-> 1]
      [] f = <<"1", "0">> -> [int |-> TRUE, n |-> 10]
      [] f = <<"5">> -> [int |-> TRUE, n |-> 5]
      [] OTHER -> [int |-> FALSE, n |-> 0]

\* a row that makes the call fail: fewer than 8 fields, or a message
\* number, byte count or line count that is no integer
FatalRow(fields) ==
    \/ Len(fields) < 8
    \/ \E i \in {1, 7, 8} : ~FieldInt(fields[i]).int

\* the row the claim gives for the fields
ExpectedRow(fields) ==
    [MessageNumber |-> FieldInt(fields[1]).n, Subject |-> fields[2], From |-> fields[3],
     Date |-> IF fields[4] = <<"d">> THEN [zero |-> FALSE, text |-> fields[4]] ELSE ZeroTime,
     MessageId |-> fields[5],
     References |-> IF fields[6] = <<"r", SP, "r">> THEN <<(<<"r">>), (<<"r">>)>>
                    ELSE <<fields[6]>>,
     Bytes |-> FieldInt(fields[7]).n, Lines |-> FieldInt(fields[8]).n,
     Extra |-> IF Len(fields) >= 9
               THEN <<JoinFields(SubSeq(fields, 9, Len(fields)), TAB)>> ELSE <<>>]

\* C17: Overview fails with a ProtocolError and returns no rows when a row
\* has fewer than 8 fields or a message number, byte count or line count that
\* is no integer; otherwise it returns every row, with a zero date where the
\* date is missing or cannot be parsed, and with what follows the 8th field
\* kept as it is on the line.
C17_OverviewRows ==
    tout.kind = "over" =>
        IF \E i \in DOMAIN tin.rows : FatalRow(tin.rows[i])
        THEN tout.res.err.kind = "ProtocolError" /\ tout.res.result = <<>>
        ELSE /\ tout.res.err = Nil
             /\ tout.res.result = [i \in DOMAIN tin.rows |-> ExpectedRow(tin.rows[i])]

\* no field of the row ends the line with white space
NoBlankAtEnd(fields) == fields[Len(fields)] = TrimSpace(fields[Len(fields)]) /\ fields[Len(fields)] # <<>>

\* The part of C17 that holds of the code: the same, for rows that do not end
\* in white space or in an empty field.
OverviewRowsWithoutBlankEnd ==
    tout.kind = "over" /\ (\A i \in DOMAIN tin.rows : NoBlankAtEnd(tin.rows[i])) =>
        IF \E i \in DOMAIN tin.rows : FatalRow(tin.rows[i])
        THEN tout.res.err.kind = "ProtocolError" /\ tout.res.result = <<>>
        ELSE /\ tout.res.err = Nil
             /\ tout.res.result = [i \in DOMAIN tin.rows |-> ExpectedRow(tin.rows[i])]

----------------------------------------------------------------------------
(* The verbs that decode a reply, on the connection: Group, Date, Stat,    *)
(* Next and Last decode the status line; Overview and NewGroups the lines  *)
(* readStrings has read; Article and Head read the header through the      *)
(* body reader.                                                            *)

\* time.Parse(timeFormatDate, line): fourteen digits that are a date and a
\* time of day
timeParse(line) ==
    LET num(i, j) == ParseUint(SubSeq(line, i, j))
        leap(y) == y % 4 = 0 /\ (y % 100 # 0 \/ y % 400 = 0)
        daysIn(m, y) == IF m = 2 THEN (IF leap(y) THEN 29 ELSE 28)
                        ELSE IF m \in {4, 6, 9, 11} THEN 30 ELSE 31
    IN  IF Len(line) # 14 \/ ~IsUint(line) THEN [ok |-> FALSE, t |-> <<>>]
        ELSE IF \/ num(5, 6) \notin 1..12
                \/ num(7, 8) \notin 1..daysIn(num(5, 6), num(1, 4))
                \/ num(9, 10) > 23 \/ num(11, 12) > 59 \/ num(13, 14) > 59
        THEN [ok |-> FALSE, t |-> <<>>]
        ELSE [ok |-> TRUE, t |-> line]

\* Date once cmd(111, "DATE") has returned r
dateParse(r) ==
    IF r.err # Nil THEN [t |-> <<>>, err |-> r.err]
    ELSE IF ~timeParse(r.line).ok
    THEN [t |-> <<>>, err |-> ProtocolError("invalid time", r.line)]
    ELSE [t |-> timeParse(r.line).t, err |-> Nil]

\* nextLastStat once cmd(223, maybeId(cmd, id)) has returned r
statParse(r) ==
    IF r.err # Nil THEN [number |-> <<>>, msgid |-> <<>>, err |-> r.err]
    ELSE LET ss == SplitN(r.line, SP, 3) IN
         IF Len(ss) < 2
         THEN [number |-> <<>>, msgid |-> <<>>, err |-> ProtocolError("Bad response", r.line)]
         ELSE [number |-> ss[1], msgid |-> ss[2], err |-> Nil]

\* parseGroups: the group of one line, or the error it ends the call with
parseGroup(line) ==
    LET ss == SplitN(TrimSpace(line), SP, 4) IN
    IF Len(ss) < 4
    THEN [err |-> ProtocolError("short group info line", line)]
    ELSE IF ~Atoi(ss[2]).ok \/ ~Atoi(ss[3]).ok
    THEN [err |-> ProtocolError("bad number in line", line)]
    ELSE [err |-> Nil,
          group |-> [Name |-> ss[1], High |-> Atoi(ss[2]).n, Low |-> Atoi(ss[3]).n,
                     Status |-> ss[4]]]

\* parseGroups' loop: res the groups so far, lines the lines not parsed yet
RECURSIVE parseGroups(_, _)
parseGroups(res, lines) ==
    IF lines = <<>> THEN [res |-> res, err |-> Nil]
    ELSE LET g == parseGroup(Head(lines)) IN
         IF g.err # Nil THEN [res |-> <<>>, err |-> g.err]
         ELSE parseGroups(Append(res, g.group), Tail(lines))

\* a verb that is cmd and the decoding of the status line: it returns err
\* and the values decoded
StatusVerb(verb, expect, c, err, values) ==
    \/ Call(verb, expect, c, <<>>)
    \/ /\ After(verb, 1)
       /\ Return(err, values, 0)
       /\ UNCHANGED <<connVars, rd, histVars, testVars>>

Group ==
    LET g == groupParse(cres)
    IN  StatusVerb("Group", 211, "GROUP", g.err, <<g.number, g.low, g.high>>)

Date == StatusVerb("Date", 111, "DATE", dateParse(cres).err, dateParse(cres).t)

nextLastStat(verb, c) ==
    LET r == statParse(cres)
    IN  StatusVerb(verb, 223, c, r.err, <<r.number, r.msgid>>)

Stat == nextLastStat("Stat", "STAT")

Last == nextLastStat("Last", "LAST")

NextArticle == nextLastStat("Next", "NEXT")

\* a verb of Decoding once readStrings has returned its lines
Decoded(verb, err, list) ==
    /\ pc = "decode"
    /\ frame.verb = verb
    /\ Return(err, list, 0)
    /\ UNCHANGED <<connVars, rd, histVars, testVars>>

\* Overview: cmd(224, "OVER %d-%d"), readStrings, the rows of the lines
Overview ==
    \/ ListVerb("Overview", 224, "OVER")
    \/ LET r == overviewRows(<<>>, frame.sv) IN Decoded("Overview", r.err, r.result)

\* NewGroups: cmd(231, "NEWGROUPS %s GMT"), then readGroups
NewGroups ==
    \/ ListVerb("NewGroups", 231, "NEWGROUPS")
    \/ LET r == parseGroups(<<>>, frame.sv) IN Decoded("NewGroups", r.err, r.res)

\* a line that is no line of a header
NoHeaderLine == <<"x">>

\* readHeader has not finished on the lines ls: it reads another line (the
\* next field's, or the one readKeyValue looks at for an extension line)
headerWantsLine(ls) ==
    LET h == readHeader(Append(ls, NoHeaderLine)) IN h.err # Nil /\ h.rest = <<>>

\* Article, Head: cmd, then readHeader(bufio.NewReader(c.body()))
HeaderVerb(verb, expect, c) ==
    \/ /\ Len(readers) < MaxReaders
       /\ Call(verb, expect, c, <<>>)
    \/ /\ After(verb, 1)
       /\ IF cres.err # Nil
          THEN /\ Return(cres.err, <<>>, 0)
               /\ UNCHANGED <<br, readers, delivered>>
          ELSE /\ body
               /\ pc' = "header"
               /\ UNCHANGED <<frame, cres, ret>>
       /\ UNCHANGED <<close, wire, tx, rd, sentLog, rcvLog, payload, drained, testVars>>

Article == HeaderVerb("Article", 220, "ARTICLE <a>")

HeadArticle == HeaderVerb("Head", 221, "HEAD <a>")

\* readHeader: it returns, or the bufio.Reader fills its buffer with one Read
\* of the body reader c.body() has returned (a whole line, the end of the
\* block, or the transport's error)
readHeaderFill ==
    /\ pc = "header"
    /\ LET i == Len(readers)
           r == readers[i]
           h == readHeader(frame.sv)
           rr == Read(r, wire, tx, TRUE)
           res == IF frame.verb = "Article" THEN i ELSE 0
       IN  IF ~headerWantsLine(frame.sv)
           THEN /\ Return(h.err, h.fields, IF h.err = Nil THEN res ELSE 0)
                /\ UNCHANGED <<readers, wire, delivered>>
           ELSE /\ r.eof \/ r.buf # <<>> \/ CanRead(wire, tx)
                /\ IF rr.panic
                   THEN /\ pc' = "panic"
                        /\ UNCHANGED <<readers, wire, delivered, frame, ret, cres>>
                   ELSE /\ readers' = [readers EXCEPT ![i] = rr.r]
                        /\ wire' = rr.wire
                        /\ delivered' = delivered \o rr.out
                        /\ IF rr.err = Nil
                           THEN /\ frame' = [frame EXCEPT !.sv = Append(@, stripNewline(rr.out))]
                                /\ UNCHANGED <<pc, ret, cres>>
                           ELSE IF rr.err = EOF
                           THEN Return(h.err, h.fields, res)
                           ELSE Return(rr.err, <<>>, 0)
    /\ UNCHANGED <<close, br, tx, rd, sentLog, rcvLog, payload, drained, testVars>>

NextDecode ==
    \/ Group \/ Date \/ Stat \/ Last \/ NextArticle
    \/ Overview \/ NewGroups \/ readStrings
    \/ Article \/ HeadArticle \/ readHeaderFill
    \/ ModeReader
    \/ cmd
    \/ Fail

SpecDecode == Init /\ [][NextDecode]_vars

\* the verbs of SpecDecode that decode a reply
Decoders ==
    {"Group", "Date", "Stat", "Last", "Next", "Overview", "NewGroups", "Article", "Head"}

\* a decoding verb has returned a ProtocolError that is not cmd's
DecodeError ==
    /\ pc = "idle"
    /\ frame.verb \in Decoders
    /\ ret.err.kind = "ProtocolError"
    /\ ret.err.what \notin {"short response", "invalid response code", "connection closed"}

\* w is the rest of a block: content lines, then the sentinel line
RestOfBlock(w) ==
    /\ w # <<>>
    /\ w[Len(w)].role = "end"
    /\ \A i \in 1..(Len(w) - 1) : w[i].role = "body"

\* C20: when a decoding verb returns a ProtocolError for the payload on a
\* working transport, either no reader is bound and nothing of the reply is
\* left unread, or (Article, Head) the reply's body reader is the bound reader
\* and what is left unread is the rest of its block through the sentinel
\* (nothing, if the reader has seen the sentinel); and every line a command
\* reads as its status line is a line the server sent as a status line.
C20_DecodeErrorKeepsAlignment ==
    /\ DecodeError /\ tx = "open" =>
          IF frame.verb \in {"Article", "Head"}
          THEN /\ br = Len(readers)
               /\ br # 0
               /\ IF readers[br].eof THEN wire = <<>> ELSE RestOfBlock(wire)
          ELSE br = 0 /\ wire = <<>>
    /\ \A i \in DOMAIN rcvLog : rcvLog[i].role = "status"

\* Article has returned a ProtocolError for the second line of a header, a
\* line it has read after a field's line, the sentinel line still unread
C20_Witness ==
    /\ DecodeError
    /\ frame.verb = "Article"
    /\ tx = "open"
    /\ Len(payload) = 2
    /\ payload[1] = <<"a", COLON, "x">>
    /\ br # 0
    /\ ~readers[br].eof
    /\ RestOfBlock(wire)

----------------------------------------------------------------------------
(* bodyReader.Read on every line a server may send. *)

\* C21: Read never ends in a runtime fault on a line pulled from the
\* transport, and what the bound reader has returned is, line by line, the
\* content of the block's lines, each followed by one line feed.
C21_ReadNeverFaults ==
    /\ pc # "panic"
    /\ br # 0 => IsPrefix(delivered, Flat(payload))

\* The part of C21 that holds of the code: the bytes returned are the content
\* lines with one line feed each, and Read faults on one line only, the line
\* that is a bare line feed.
ReadFaultsOnBareLineFeedOnly ==
    /\ br # 0 => IsPrefix(delivered, Flat(payload))
    /\ pc = "panic" => wire # <<>> /\ Head(wire).b = <<LF>>

====
